---- MODULE Spec2Model ----
(***************************************************************************)
(* The session-authentication-and-interaction flow of OpenCowork's two     *)
(* browser-automation scripts:                                             *)
(*   resources/skills/browser-session-crawler/scripts/crawl.py             *)
(*       crawl_with_session, simple_crawl, main                            *)
(*   resources/skills/post-to-x/scripts/post_to_x.py                       *)
(*       post_to_x, main                                                   *)
(* One run of one of the three coroutines is modelled, one action per      *)
(* awaited call.  The browser, the page and the human are the environment: *)
(* a call may raise, selectors appear in the DOM while the run waits, and  *)
(* the browser may die at any moment.                                      *)
(***************************************************************************)
EXTENDS Integers, Sequences, FiniteSets, TLC

\* Length, in clock ticks, of the short selector timeouts
\* (crawl.py:51 timeout=3000, post_to_x.py:98 and :149 timeout=5000).
ShortWait == 1
\* Length, in clock ticks, of the long login timeout
\* (crawl.py:69 and post_to_x.py:111 timeout=300000).
LongWait == 2

None == "None"

Programs == {"crawl_with_session", "simple_crawl", "post_to_x"}
Crawlers == {"crawl_with_session", "simple_crawl"}
Vendors == {"Chrome", "Edge"}

Range(s) == {s[i] : i \in 1..Len(s)}

\* The indicator the crawler is called with (example_zhihu.py:68).
logged_in_indicator == ".AppHeader-profile"

\* post_to_x.py:88-93
logged_in_selectors ==
  << "[data-testid=\"SideNav_NewTweet_Button\"]",
     "[data-testid=\"tweetButtonInline\"]",
     "[data-testid=\"AppTabBar_Profile_Link\"]",
     "a[href=\"/compose/tweet\"]" >>

\* post_to_x.py:125
compose_selector == "[data-testid=\"SideNav_NewTweet_Button\"]"

\* post_to_x.py:138-144
text_selectors ==
  << "[data-testid=\"tweetTextarea_0\"]",
     "[data-testid=\"tweetTextarea_0RichTextInputContainer\"]",
     "div[contenteditable=\"true\"]",
     "[aria-label=\"Tweet text\"]",
     "[aria-label=\"fa tui\"]" >>

\* post_to_x.py:167-171
post_selectors ==
  << "[data-testid=\"tweetButton\"]",
     "[data-testid=\"tweetButtonInline\"]",
     "button[data-testid=\"tweetButton\"]" >>

\* The two launch flags (crawl.py:100-101, post_to_x.py:66-67).
AutomationControlled == "--disable-blink-features=AutomationControlled"
WebSecurity == "--disable-web-security"

VARIABLES
  prog,               \* which coroutine this run executes
  localAppData,       \* os.environ has LOCALAPPDATA
  dirs,               \* vendor user-data directories that exist on disk
  use_system_profile, \* crawl_with_session parameter
  login_url,          \* crawler parameter: None or the login page
  scroll,             \* simple_crawl parameter
  pc,                 \* position of the run in the code
  user_data_dir,      \* result of the profile resolution
  browser,            \* "none" | "open" | "closed"
  launchKind,         \* None | "persistent" | "ephemeral"
  launchArgs,         \* args the browser was launched with
  pageAlive,          \* the browser process and its page still answer
  dom,                \* selectors that match an element of the loaded page,
                      \* among those the current step of the flow queries
  idx,                \* index of the selector the current loop is at
  elapsed,            \* ticks the current wait_for_selector has waited
  queried,            \* selectors the current (or last) loop has tried, in order
  domStable,          \* no selector appeared since that loop started
  waited,             \* ticks the current (or last) loop has waited in all
  is_logged_in,       \* post_to_x local / crawler local of the same name
  text_input,         \* selector bound to the text input, or None
  post_btn,           \* selector bound to the submit control, or None
  exc,                \* exception propagating out of the coroutine, or None
  result,             \* value the coroutine returned, or None
  failKind,           \* the error that ended the run, or None
  closeCount,         \* number of browser.close() calls
  files,              \* screenshot files written
  output,             \* JSON records the host process printed
  crashed,            \* an exception escaped to the host process
  log,                \* landmark calls the run made, in order
  trace,              \* states of the session state machine visited
  probeSeen,          \* indicators present at some moment of the initial probe
  probeDone,          \* the initial probe has returned
  loginWaits,         \* number of login-wait episodes started
  success,            \* what the login wait returned, or None
  other,              \* a second run on the same profile directory:
                      \* "idle" | "open" | "done"
  dl_pc,              \* download_skill: position in the code
  meta_file_exists,   \* download_skill: skill.json is on disk at the call
  path_tpl,           \* download_skill: index of the path template tried
  base,               \* download_skill: index of the branch tried
  requests,           \* download_skill: URLs requested, in order
  resp,               \* download_skill: the last response, or None
  written,            \* download_skill: files this call has written
  dl_result           \* download_skill: value returned, exception, or None

inputs == <<prog, localAppData, dirs, use_system_profile, login_url, scroll>>
launchV == <<user_data_dir, launchKind, launchArgs>>
bound == <<text_input, post_btn>>
hostV == <<output, crashed>>
probeV == <<probeSeen, probeDone>>
loginV == <<loginWaits, success>>
loop == <<idx, elapsed, queried, domStable, waited>>
dl == <<dl_pc, meta_file_exists, path_tpl, base, requests, resp, written,
        dl_result>>

vars == <<prog, localAppData, dirs, use_system_profile, login_url, scroll,
          pc, user_data_dir, browser, launchKind, launchArgs, pageAlive, dom,
          idx, elapsed, queried, domStable, waited, is_logged_in, text_input,
          post_btn, exc, result,
          failKind, closeCount, files, output, crashed, log, trace,
          probeSeen, probeDone, loginWaits, success, other,
          dl_pc, meta_file_exists, path_tpl, base, requests, resp, written,
          dl_result>>

----------------------------------------------------------------------------
\* Profile resolution

\* The vendor directories in the order crawl.py tries them (crawl.py:21-30).
chrome_priority == <<"Chrome", "Edge">>

\* The vendor directories in the order post_to_x.py tries them
\* (post_to_x.py:19-28: "Edge first, the user's default browser").
browser_priority == <<"Edge", "Chrome">>

\* The resolver without the existence check of its second directory.
get_default_chrome_user_data_dir_unchecked(la, d) ==
  IF ~la THEN None
  ELSE IF "Chrome" \in d THEN "Chrome"
  ELSE "Edge"

\* crawl.py:16-32
get_default_chrome_user_data_dir(la, d) ==
  IF ~la THEN None
  ELSE IF "Chrome" \in d THEN "Chrome"
  ELSE IF "Edge" \in d THEN "Edge"
  ELSE None

\* The resolver without its second directory: Chrome is never tried.
get_default_browser_user_data_dir_edge_only(la, d) ==
  IF ~la THEN None
  ELSE IF "Edge" \in d THEN "Edge"
  ELSE None

\* post_to_x.py:14-30
get_default_browser_user_data_dir(la, d) ==
  IF ~la THEN None
  ELSE IF "Edge" \in d THEN "Edge"
  ELSE IF "Chrome" \in d THEN "Chrome"
  ELSE None

----------------------------------------------------------------------------
\* The page

\* The indicators of the run: one for the crawler, a list for the publisher.
Indicators == IF prog = "post_to_x" THEN logged_in_selectors
              ELSE <<logged_in_indicator>>

\* "button[data-testid=tweetButton]" matches only elements that
\* "[data-testid=tweetButton]" matches too.
ValidDom(d) == post_selectors[3] \in d => post_selectors[1] \in d

\* The pages a navigation, a click or a sleep can leave behind, as far as the
\* selectors in `scope` tell them apart.
Pages(scope) == {d \in SUBSET scope : ValidDom(d)}

\* The selectors the run queries at position p.
Scope(p) ==
  CASE p \in {"locate_text", "text_missing"} -> Range(text_selectors)
    [] p \in {"locate_post", "post_missing"} -> Range(post_selectors)
    [] OTHER -> Range(Indicators)

\* Positions at which the run is suspended in a wait_for_selector.
WaitPcs == {"probe", "login_wait", "locate_text"}

\* Positions at which time passes on a loaded page.
IdlePcs == WaitPcs \cup {"settle", "notify", "dialog", "locate_post"}

\* The selector list the loop at position p walks.
ListAt(p) ==
  CASE p = "locate_text" -> text_selectors
    [] p = "locate_post" -> post_selectors
    [] OTHER -> Indicators

\* The timeout of the wait_for_selector at position p.
TimeoutAt(p) == IF p = "login_wait" THEN LongWait ELSE ShortWait

\* The selector the current wait or query is about.
Selector == ListAt(pc)[idx]

\* wait_for_selector(Selector) returns the element.
Resolves == pageAlive /\ Selector \in dom

\* wait_for_selector(Selector) raises: TimeoutError once the timeout has
\* elapsed without the selector, or an error because the page is gone.
WaitRaises == \/ ~pageAlive
              \/ Selector \notin dom /\ elapsed = TimeoutAt(pc)

\* The outcomes of a call on the page: it may always raise (timeout, network
\* error, detached element) and it does raise when the page is gone.
Raises == {r \in BOOLEAN : ~pageAlive => r}

\* The outcomes of a read-only query: it raises only when the page is gone.
QueryRaises == ~pageAlive

----------------------------------------------------------------------------
\* The session state machine (spec.md 4.6) a position belongs to.

ExtractPcs == {"extract", "open_compose", "compose_goto", "locate_text",
               "text_missing", "fill", "locate_post", "post_missing",
               "check_disabled", "activate", "force_click", "post_done"}

StateOf(p, fk) ==
  CASE p = "resolve" -> "Init"
    [] p = "launch" -> "Launching"
    [] p \in {"new_page", "goto_target", "settle"} -> "Navigating"
    [] p = "probe" -> "Probing"
    [] p \in {"login_goto", "notify", "dialog", "login_wait", "regoto"} ->
         "AwaitingLogin"
    [] p \in ExtractPcs -> "Extracting"
    [] OTHER -> IF fk = None THEN "Done" ELSE "Failed"

Last(s) == s[Len(s)]

\* Move to position p, recording the state machine's transition.
Goto(p) ==
  /\ pc' = p
  /\ trace' = IF StateOf(p, failKind') = Last(trace) THEN trace
              ELSE Append(trace, StateOf(p, failKind'))

Log(e) == log' = Append(log, e)

\* A loop over a selector list starts at its first selector.
StartLoop ==
  /\ idx' = 1
  /\ elapsed' = 0
  /\ queried' = <<>>
  /\ domStable' = TRUE
  /\ waited' = 0

\* The loop has tried Selector and goes on to the next one (`continue`).
NextSelector ==
  /\ idx' = idx + 1
  /\ elapsed' = 0
  /\ queried' = Append(queried, Selector)
  /\ UNCHANGED <<domStable, waited>>

\* The loop has tried Selector and ends (`break`, or the list is exhausted).
EndLoop ==
  /\ queried' = Append(queried, Selector)
  /\ UNCHANGED <<idx, elapsed, domStable, waited>>

\* show_login_notification (crawl.py:35-48, post_to_x.py:33-46): where
\* ctypes.windll exists MessageBoxW shows a modal dialog and returns only when
\* the human closes it; elsewhere the call raises and the banner is printed.
\* The long wait starts after the function has returned.
show_login_notification ==
  /\ Log(<<"notify">>)
  /\ \E dialog \in BOOLEAN :
       IF dialog
       THEN UNCHANGED loop /\ Goto("dialog")
       ELSE StartLoop /\ Goto("login_wait")

\* The profile directory the run resolved is held by the second run.
ProfileLocked == user_data_dir # None /\ other = "open"

\* The outcomes of a launch: it may always fail (browser unavailable), and it
\* does fail on a profile directory that another browser instance holds
\* (post_to_x.py:70-73: "close the Edge browser and retry").
LaunchOutcomes == {ok \in BOOLEAN : ProfileLocked => ~ok}

----------------------------------------------------------------------------
\* The state of a run that has not started: no browser, no page, nothing
\* bound, logged or printed.
Fresh ==
  /\ user_data_dir = None
  /\ browser = "none"
  /\ launchKind = None
  /\ launchArgs = {}
  /\ pageAlive = TRUE
  /\ dom = {}
  /\ idx = 1
  /\ elapsed = 0
  /\ queried = <<>>
  /\ domStable = TRUE
  /\ waited = 0
  /\ is_logged_in = FALSE
  /\ text_input = None
  /\ post_btn = None
  /\ exc = None
  /\ result = None
  /\ failKind = None
  /\ closeCount = 0
  /\ files = {}
  /\ output = <<>>
  /\ crashed = FALSE
  /\ log = <<>>
  /\ trace = <<"Init">>
  /\ probeSeen = {}
  /\ probeDone = FALSE
  /\ loginWaits = 0
  /\ success = None
  /\ other = "idle"

\* The value of resp before the first requests.get of a call.
NoResponse == [kind |-> "none", status_code |-> 0, text |-> <<>>]

\* No call of download_skill is under way.
NoDownload ==
  /\ dl_pc = "idle"
  /\ meta_file_exists = FALSE
  /\ path_tpl = 1
  /\ base = 1
  /\ requests = <<>>
  /\ resp = NoResponse
  /\ written = {}
  /\ dl_result = None

Init ==
  /\ prog \in Programs
  /\ localAppData \in BOOLEAN
  /\ dirs \in SUBSET Vendors
  /\ (~localAppData => dirs = {})
  /\ use_system_profile \in BOOLEAN
  /\ (prog # "crawl_with_session" => use_system_profile)
  /\ login_url \in {None, "login"}
  /\ (prog = "post_to_x" => login_url = None)
  /\ scroll \in BOOLEAN
  /\ (prog # "simple_crawl" => ~scroll)
  /\ pc = "resolve"
  /\ Fresh
  /\ NoDownload

----------------------------------------------------------------------------
\* Environment

\* A clock tick while the run is suspended in a wait_for_selector whose
\* selector is not there.
Tick ==
  /\ pc \in WaitPcs
  /\ pageAlive
  /\ Selector \notin dom
  /\ elapsed < TimeoutAt(pc)
  /\ elapsed' = elapsed + 1
  /\ waited' = waited + 1
  /\ UNCHANGED <<inputs, other, dl, pc, launchV, browser, pageAlive, dom, idx, queried,
                 domStable, is_logged_in, bound, exc, result, failKind, closeCount,
                 files, hostV, log, trace, probeV, loginV>>

\* A selector starts to match: the page finished rendering, or the human
\* logged in.
DomAppear(s) ==
  /\ pc \in IdlePcs
  /\ pageAlive
  /\ s \in Scope(pc) \ dom
  /\ ValidDom(dom \cup {s})
  /\ dom' = dom \cup {s}
  /\ probeSeen' = IF pc = "probe" THEN probeSeen \cup {s} ELSE probeSeen
  /\ domStable' = FALSE
  /\ UNCHANGED <<inputs, other, dl, pc, launchV, browser, pageAlive, idx, elapsed,
                 queried, waited, is_logged_in, bound, exc, result, failKind, closeCount,
                 files, hostV, log, trace, probeDone, loginV>>

\* The browser dies (closed by the human, crashed): every later call on the
\* page raises.
PageCrash ==
  /\ browser = "open"
  /\ pageAlive
  /\ pc \notin {"close", "except"}
  /\ pageAlive' = FALSE
  /\ UNCHANGED <<inputs, other, dl, pc, launchV, browser, dom, loop, is_logged_in, bound, exc, result, failKind, closeCount,
                 files, hostV, log, trace, probeV, loginV>>

\* The human closes the dialog: MessageBoxW returns (crawl.py:37-42,
\* post_to_x.py:37-42) and the long wait starts (crawl.py:67-69,
\* post_to_x.py:109-111).
DialogClosed ==
  /\ pc = "dialog"
  /\ StartLoop
  /\ UNCHANGED <<inputs, other, dl, launchV, browser, pageAlive, dom, is_logged_in,
                 bound, exc, result, failKind, closeCount, files, hostV, log,
                 probeV, loginV>>
  /\ Goto("login_wait")

\* This run holds the profile directory: its persistent context is open.
HoldsProfile == browser = "open" /\ launchKind = "persistent"

\* A second run of the same program on the same profile directory, as far
\* as its browser handle goes: it launches once (crawl.py:105-109,
\* post_to_x.py:62-69), gets a handle unless this run holds the directory,
\* and is over without one otherwise.
OtherRunLaunch ==
  /\ other = "idle"
  /\ pc # "exit"
  /\ IF prog = "post_to_x"
     THEN get_default_browser_user_data_dir(localAppData, dirs) # None
     ELSE /\ use_system_profile
          /\ get_default_chrome_user_data_dir(localAppData, dirs) # None
  /\ \E ok \in {b \in BOOLEAN : HoldsProfile => ~b} :
       other' = IF ok THEN "open" ELSE "done"
  /\ UNCHANGED <<inputs, dl, pc, launchV, browser, pageAlive, dom, loop,
                 is_logged_in, bound, exc, result, failKind, closeCount,
                 files, hostV, log, trace, probeV, loginV>>

\* The second run closes its browser (crawl.py:136-137, post_to_x.py:212-216).
OtherRunClose ==
  /\ other = "open"
  /\ other' = "done"
  /\ UNCHANGED <<inputs, dl, pc, launchV, browser, pageAlive, dom, loop,
                 is_logged_in, bound, exc, result, failKind, closeCount,
                 files, hostV, log, trace, probeV, loginV>>

----------------------------------------------------------------------------
\* crawl.py: crawl_with_session and simple_crawl

\* The same without the finally block: the exception leaves the coroutine
\* with the browser still open.
CrawlerRaise_NoFinally(kind) ==
  /\ exc' = kind
  /\ failKind' = kind
  /\ Goto("returned")

\* An exception raised inside `try:` ... `finally: await browser.close()`
\* (crawl.py:113-137, 164-215): it propagates after the finally block ran.
CrawlerRaise(kind) ==
  /\ exc' = kind
  /\ failKind' = kind
  /\ Goto("close")

\* crawl.py:87-94
crawl_with_session_resolve ==
  /\ prog = "crawl_with_session"
  /\ pc = "resolve"
  /\ user_data_dir' = IF use_system_profile
                      THEN get_default_chrome_user_data_dir(localAppData, dirs)
                      ELSE None
  /\ UNCHANGED <<inputs, other, dl, browser, launchKind, launchArgs, pageAlive, dom, loop,
                 is_logged_in, bound, exc, result, failKind, closeCount,
                 files, hostV, log, probeV, loginV>>
  /\ Goto("launch")

\* crawl.py:152
simple_crawl_resolve ==
  /\ prog = "simple_crawl"
  /\ pc = "resolve"
  /\ user_data_dir' = get_default_chrome_user_data_dir(localAppData, dirs)
  /\ UNCHANGED <<inputs, other, dl, browser, launchKind, launchArgs, pageAlive, dom, loop,
                 is_logged_in, bound, exc, result, failKind, closeCount,
                 files, hostV, log, probeV, loginV>>
  /\ Goto("launch")

\* crawl.py:97-103: the launch options of crawl_with_session.
launch_options == {AutomationControlled, WebSecurity}

\* crawl.py:96-111.  The launch is outside the try block: its exception
\* leaves the coroutine at once.
crawl_with_session_launch ==
  /\ prog = "crawl_with_session"
  /\ pc = "launch"
  /\ Log(<<"launch">>)
  /\ \E ok \in LaunchOutcomes :
       IF ok
       THEN /\ browser' = "open"
            /\ launchKind' = IF user_data_dir # None THEN "persistent"
                             ELSE "ephemeral"
            /\ launchArgs' = launch_options
            /\ UNCHANGED <<exc, failKind>>
            /\ Goto("new_page")
       ELSE /\ exc' = "LaunchError"
            /\ failKind' = "LaunchError"
            /\ UNCHANGED <<browser, launchKind, launchArgs>>
            /\ Goto("returned")
  /\ UNCHANGED <<inputs, other, dl, user_data_dir, pageAlive, dom, loop, is_logged_in,
                 bound, result, closeCount, files, hostV, probeV, loginV>>

\* crawl.py:154-162
simple_crawl_launch ==
  /\ prog = "simple_crawl"
  /\ pc = "launch"
  /\ Log(<<"launch">>)
  /\ \E ok \in LaunchOutcomes :
       IF ok
       THEN /\ browser' = "open"
            /\ launchKind' = IF user_data_dir # None THEN "persistent"
                             ELSE "ephemeral"
            /\ launchArgs' = IF user_data_dir # None
                             THEN {AutomationControlled} ELSE {}
            /\ UNCHANGED <<exc, failKind>>
            /\ Goto("new_page")
       ELSE /\ exc' = "LaunchError"
            /\ failKind' = "LaunchError"
            /\ UNCHANGED <<browser, launchKind, launchArgs>>
            /\ Goto("returned")
  /\ UNCHANGED <<inputs, other, dl, user_data_dir, pageAlive, dom, loop, is_logged_in,
                 bound, result, closeCount, files, hostV, probeV, loginV>>

\* crawl.py:114 (simple_crawl: 165)
crawler_new_page ==
  /\ prog \in Crawlers
  /\ pc = "new_page"
  /\ Log(<<"new_page">>)
  /\ \E raises \in Raises :
       IF raises THEN CrawlerRaise("PageError")
       ELSE UNCHANGED <<exc, failKind>> /\ Goto("goto_target")
  /\ UNCHANGED <<inputs, other, dl, launchV, browser, pageAlive, dom, loop, is_logged_in,
                 bound, result, closeCount, files, hostV, probeV, loginV>>

\* crawl.py:116-120 (simple_crawl: 167-168): page.goto(target_url) is not
\* guarded; crawl_with_session goes on to the probe, simple_crawl sleeps first.
crawler_goto_target ==
  /\ prog \in Crawlers
  /\ pc = "goto_target"
  /\ \E raises \in Raises :
       IF raises
       THEN /\ Log(<<"goto", "target", "raised">>)
            /\ UNCHANGED <<dom, probeSeen>>
            /\ CrawlerRaise("NavigationTimeout")
       ELSE /\ Log(<<"goto", "target", "ok">>)
            /\ dom' \in Pages(Range(Indicators))
            /\ probeSeen' = IF prog = "crawl_with_session" THEN dom' ELSE {}
            /\ UNCHANGED <<exc, failKind>>
            /\ Goto(IF prog = "crawl_with_session" THEN "probe" ELSE "settle")
  /\ UNCHANGED <<inputs, other, dl, launchV, browser, pageAlive, loop, is_logged_in,
                 bound, result, closeCount, files, hostV, probeDone, loginV>>

\* crawl.py:170-180: the sleep, and the scroll script when asked for.
simple_crawl_settle ==
  /\ prog = "simple_crawl"
  /\ pc = "settle"
  /\ \E raises \in (IF scroll THEN Raises ELSE {FALSE}) :
       IF raises
       THEN /\ UNCHANGED <<probeSeen, log, domStable>>
            /\ CrawlerRaise("PageError")
       ELSE /\ probeSeen' = dom
            /\ domStable' = TRUE
            /\ log' = IF scroll THEN Append(log, <<"evaluate", "scroll">>)
                      ELSE log
            /\ UNCHANGED <<exc, failKind>>
            /\ Goto("probe")
  /\ UNCHANGED <<inputs, other, dl, launchV, browser, pageAlive, dom, idx, elapsed,
                 queried, waited, is_logged_in, bound, result, closeCount, files,
                 hostV, probeDone, loginV>>

\* The caller's branch inverted (`if is_logged_in:`): an authenticated run
\* is sent to wait_for_login.
check_login_status_true_inverted ==
  /\ prog \in Crawlers
  /\ pc = "probe"
  /\ Resolves
  /\ Log(<<"probe">>)
  /\ EndLoop
  /\ is_logged_in' = TRUE
  /\ probeDone' = TRUE
  /\ UNCHANGED <<inputs, other, dl, launchV, browser, pageAlive, dom, bound, exc, result,
                 failKind, closeCount, files, hostV, probeSeen, loginV>>
  /\ Goto(IF login_url # None THEN "login_goto" ELSE "notify")

\* crawl.py:51-55 and the caller's branch (120-122, 180-182): the selector
\* resolved, the probe is true and the run goes on to the extraction.
check_login_status_true ==
  /\ prog \in Crawlers
  /\ pc = "probe"
  /\ Resolves
  /\ Log(<<"probe">>)
  /\ EndLoop
  /\ is_logged_in' = TRUE
  /\ probeDone' = TRUE
  /\ UNCHANGED <<inputs, other, dl, launchV, browser, pageAlive, dom, bound, exc, result,
                 failKind, closeCount, files, hostV, probeSeen, loginV>>
  /\ Goto("extract")

\* wait_for_login without its first two lines: the login page is never
\* opened.
wait_for_login_entry_no_goto == "notify"

\* The position wait_for_login starts at (crawl.py:62): the login page when
\* a login URL was given, the notification otherwise.
wait_for_login_entry == IF login_url # None THEN "login_goto" ELSE "notify"

\* check_login_status without its try/except: the error of the wait leaves
\* the function.
check_login_status_reraise ==
  /\ is_logged_in' = FALSE
  /\ probeDone' = TRUE
  /\ UNCHANGED loginWaits
  /\ CrawlerRaise("TimeoutError")

\* What check_login_status does with an error of its wait (crawl.py:56-57):
\* it returns False, and the caller calls wait_for_login (122-124, 182-184).
check_login_status_except ==
  /\ is_logged_in' = FALSE
  /\ probeDone' = TRUE
  /\ loginWaits' = loginWaits + 1
  /\ UNCHANGED <<exc, failKind>>
  /\ Goto(wait_for_login_entry)

\* crawl.py:53-57: the wait raised, by timeout or otherwise.
check_login_status_false ==
  /\ prog \in Crawlers
  /\ pc = "probe"
  /\ WaitRaises
  /\ Log(<<"probe">>)
  /\ EndLoop
  /\ UNCHANGED <<inputs, other, dl, launchV, browser, pageAlive, dom, bound, result,
                 closeCount, files, hostV, probeSeen, success>>
  /\ check_login_status_except

\* crawl.py:62-63: not guarded, so an error leaves wait_for_login and the
\* caller's try block.
wait_for_login_goto ==
  /\ prog \in Crawlers
  /\ pc = "login_goto"
  /\ \E raises \in Raises :
       IF raises
       THEN /\ Log(<<"goto", "login", "raised">>)
            /\ UNCHANGED dom
            /\ CrawlerRaise("NavigationTimeout")
       ELSE /\ Log(<<"goto", "login", "ok">>)
            /\ dom' \in Pages(Range(Indicators))
            /\ UNCHANGED <<exc, failKind>>
            /\ Goto("notify")
  /\ UNCHANGED <<inputs, other, dl, launchV, browser, pageAlive, loop, is_logged_in,
                 bound, result, closeCount, files, hostV, probeV, loginV>>

\* crawl.py:65: wait_for_login calls show_login_notification.
crawler_show_login_notification ==
  /\ prog \in Crawlers
  /\ pc = "notify"
  /\ show_login_notification
  /\ UNCHANGED <<inputs, other, dl, launchV, browser, pageAlive, dom, is_logged_in,
                 bound, exc, result, failKind, closeCount, files, hostV,
                 probeV, loginV>>

\* crawl.py:68-71: the indicator appeared; the caller goes on to navigate to
\* the target again (128-129, 187).
wait_for_login_true ==
  /\ prog \in Crawlers
  /\ pc = "login_wait"
  /\ Resolves
  /\ Log(<<"long_wait">>)
  /\ EndLoop
  /\ success' = "True"
  /\ UNCHANGED <<inputs, other, dl, launchV, browser, pageAlive, dom, is_logged_in,
                 bound, exc, result, failKind, closeCount, files, hostV,
                 probeV, loginWaits>>
  /\ Goto("regoto")

\* The caller ignoring what wait_for_login returned: the run goes on after
\* a login timeout.
wait_for_login_false_ignored ==
  /\ prog \in Crawlers
  /\ pc = "login_wait"
  /\ WaitRaises
  /\ Log(<<"long_wait">>)
  /\ EndLoop
  /\ success' = "False"
  /\ UNCHANGED <<inputs, other, dl, launchV, browser, pageAlive, dom, is_logged_in,
                 bound, result, closeCount, files, hostV, probeV, loginWaits>>
  /\ UNCHANGED <<exc, failKind>>
  /\ Goto("regoto")

\* crawl.py:72-74, and the caller raising on False (125-126, 185-186).
wait_for_login_false ==
  /\ prog \in Crawlers
  /\ pc = "login_wait"
  /\ WaitRaises
  /\ Log(<<"long_wait">>)
  /\ EndLoop
  /\ success' = "False"
  /\ UNCHANGED <<inputs, other, dl, launchV, browser, pageAlive, dom, is_logged_in,
                 bound, result, closeCount, files, hostV, probeV, loginWaits>>
  /\ CrawlerRaise("LoginTimeout")

\* crawl.py:128-129 (simple_crawl: 187)
crawler_goto_target_again ==
  /\ prog \in Crawlers
  /\ pc = "regoto"
  /\ \E raises \in Raises :
       IF raises
       THEN /\ Log(<<"goto", "target", "raised">>)
            /\ UNCHANGED dom
            /\ CrawlerRaise("NavigationTimeout")
       ELSE /\ Log(<<"goto", "target", "ok">>)
            /\ dom' \in Pages(Range(Indicators))
            /\ UNCHANGED <<exc, failKind>>
            /\ Goto("extract")
  /\ UNCHANGED <<inputs, other, dl, launchV, browser, pageAlive, loop, is_logged_in,
                 bound, result, closeCount, files, hostV, probeV, loginV>>

\* crawl.py:131-134: the caller's routine runs on the page and may raise.
crawl_function ==
  /\ prog = "crawl_with_session"
  /\ pc = "extract"
  /\ Log(<<"extract">>)
  /\ \E raises \in Raises :
       IF raises
       THEN UNCHANGED result /\ CrawlerRaise("ExtractionError")
       ELSE /\ result' = "payload"
            /\ UNCHANGED <<exc, failKind>>
            /\ Goto("close")
  /\ UNCHANGED <<inputs, other, dl, launchV, browser, pageAlive, dom, loop, is_logged_in,
                 bound, closeCount, files, hostV, probeV, loginV>>

\* crawl.py:189-212: the query or the script, the truncation and the save.
simple_crawl_extract ==
  /\ prog = "simple_crawl"
  /\ pc = "extract"
  /\ Log(<<"extract">>)
  /\ \E raises \in Raises :
       IF raises
       THEN UNCHANGED result /\ CrawlerRaise("ExtractionError")
       ELSE /\ result' = "payload"
            /\ UNCHANGED <<exc, failKind>>
            /\ Goto("close")
  /\ UNCHANGED <<inputs, other, dl, launchV, browser, pageAlive, dom, loop, is_logged_in,
                 bound, closeCount, files, hostV, probeV, loginV>>

\* crawl.py:136-137 (simple_crawl: 214-215): the finally block.  An error of
\* close() replaces the return value or the exception that was on its way.
\* With the browser the page is gone.
crawler_close ==
  /\ prog \in Crawlers
  /\ pc = "close"
  /\ closeCount' = closeCount + 1
  /\ browser' = "closed"
  /\ \E raises \in BOOLEAN :
       IF raises
       THEN /\ Log(<<"close", "raised">>)
            /\ exc' = "CloseError"
            /\ result' = None
       ELSE /\ Log(<<"close", "ok">>)
            /\ UNCHANGED <<exc, result>>
  /\ dom' = {}
  /\ UNCHANGED <<inputs, other, dl, launchV, pageAlive, loop, is_logged_in, bound,
                 failKind, files, hostV, probeV, loginV>>
  /\ Goto("returned")

\* crawl.py:232-248: main runs simple_crawl unguarded and prints the record.
crawl_main ==
  /\ prog = "simple_crawl"
  /\ pc = "returned"
  /\ IF exc # None
     THEN crashed' = TRUE /\ UNCHANGED output
     ELSE /\ output' = Append(output, [url |-> "target", content |-> result])
          /\ UNCHANGED crashed
  /\ UNCHANGED <<inputs, other, dl, launchV, browser, pageAlive, dom, loop, is_logged_in,
                 bound, exc, result, failKind, closeCount, files, log, probeV,
                 loginV>>
  /\ Goto("exit")

\* example_zhihu.py:65-79: the caller of crawl_with_session, unguarded too.
example_zhihu_main ==
  /\ prog = "crawl_with_session"
  /\ pc = "returned"
  /\ IF exc # None
     THEN crashed' = TRUE /\ UNCHANGED output
     ELSE /\ output' = Append(output, [source |-> "zhihu", items |-> result])
          /\ UNCHANGED crashed
  /\ UNCHANGED <<inputs, other, dl, launchV, browser, pageAlive, dom, loop, is_logged_in,
                 bound, exc, result, failKind, closeCount, files, log, probeV,
                 loginV>>
  /\ Goto("exit")

----------------------------------------------------------------------------
\* post_to_x.py: post_to_x

\* post_to_x.py:205-206: an exception inside the try block is caught by
\* `except Exception`.
PublisherRaise(kind) ==
  /\ failKind' = kind
  /\ Goto("except")

\* A return that skips the finally block: the caller gets the value with
\* the browser still open.
PublisherReturn_NoFinally(value) ==
  /\ result' = value
  /\ Goto("returned")

\* A `return False` / `return True` inside the try block (post_to_x.py:120,
\* 159, 199, 203, 211): the finally block runs before the caller gets it.
PublisherReturn(value) ==
  /\ result' = value
  /\ Goto("close")

\* post_to_x.py:52-58: without a profile the publisher gives up.
post_to_x_resolve ==
  /\ prog = "post_to_x"
  /\ pc = "resolve"
  /\ user_data_dir' = get_default_browser_user_data_dir(localAppData, dirs)
  /\ IF user_data_dir' # None
     THEN UNCHANGED <<result, failKind>> /\ Goto("launch")
     ELSE /\ result' = "False"
          /\ failKind' = "ProfileNotFound"
          /\ Goto("returned")
  /\ UNCHANGED <<inputs, other, dl, browser, launchKind, launchArgs, pageAlive, dom, loop,
                 is_logged_in, bound, exc, closeCount, files, hostV, log,
                 probeV, loginV>>

\* The launch in a retry loop: after a first failure it is attempted once
\* more.
post_to_x_launch_retry ==
  /\ prog = "post_to_x"
  /\ pc = "launch"
  /\ Log(<<"launch">>)
  /\ \E ok \in LaunchOutcomes :
       IF ok
       THEN /\ browser' = "open"
            /\ launchKind' = "persistent"
            /\ launchArgs' = {AutomationControlled, WebSecurity}
            /\ UNCHANGED <<result, failKind>>
            /\ Goto("new_page")
       ELSE IF log = <<>>
       THEN /\ UNCHANGED <<result, failKind, browser, launchKind, launchArgs>>
            /\ Goto("launch")
       ELSE /\ result' = "False"
            /\ failKind' = "LaunchError"
            /\ UNCHANGED <<browser, launchKind, launchArgs>>
            /\ Goto("returned")
  /\ UNCHANGED <<inputs, other, dl, user_data_dir, pageAlive, dom, loop, is_logged_in,
                 bound, exc, closeCount, files, hostV, probeV, loginV>>

\* post_to_x.py:60-73
post_to_x_launch ==
  /\ prog = "post_to_x"
  /\ pc = "launch"
  /\ Log(<<"launch">>)
  /\ \E ok \in LaunchOutcomes :
       IF ok
       THEN /\ browser' = "open"
            /\ launchKind' = "persistent"
            /\ launchArgs' = {AutomationControlled, WebSecurity}
            /\ UNCHANGED <<result, failKind>>
            /\ Goto("new_page")
       ELSE /\ result' = "False"
            /\ failKind' = "LaunchError"
            /\ UNCHANGED <<browser, launchKind, launchArgs>>
            /\ Goto("returned")
  /\ UNCHANGED <<inputs, other, dl, user_data_dir, pageAlive, dom, loop, is_logged_in,
                 bound, exc, closeCount, files, hostV, probeV, loginV>>

\* post_to_x.py:76
post_to_x_new_page ==
  /\ prog = "post_to_x"
  /\ pc = "new_page"
  /\ Log(<<"new_page">>)
  /\ \E raises \in Raises :
       IF raises THEN PublisherRaise("PageError")
       ELSE UNCHANGED failKind /\ Goto("goto_target")
  /\ UNCHANGED <<inputs, other, dl, launchV, browser, pageAlive, dom, loop, is_logged_in,
                 bound, exc, result, closeCount, files, hostV, probeV, loginV>>

\* post_to_x.py:78-83: whatever page.goto("https://x.com") raises is
\* swallowed.
post_to_x_goto ==
  /\ prog = "post_to_x"
  /\ pc = "goto_target"
  /\ \E raises \in Raises :
       Log(<<"goto", "target", IF raises THEN "raised" ELSE "ok">>)
  /\ dom' \in Pages(Range(Indicators))
  /\ UNCHANGED <<inputs, other, dl, launchV, browser, pageAlive, loop, is_logged_in,
                 bound, exc, result, failKind, closeCount, files, hostV,
                 probeV, loginV>>
  /\ Goto("settle")

\* post_to_x.py:84-96: the sleep, then the probe loop starts.
post_to_x_settle ==
  /\ prog = "post_to_x"
  /\ pc = "settle"
  /\ probeSeen' = dom
  /\ StartLoop
  /\ UNCHANGED <<inputs, other, dl, launchV, browser, pageAlive, dom, is_logged_in,
                 bound, exc, result, failKind, closeCount, files, hostV, log,
                 probeDone, loginV>>
  /\ Goto("probe")

\* post_to_x.py:96-101: the selector of this iteration resolved.
post_to_x_probe_found ==
  /\ prog = "post_to_x"
  /\ pc = "probe"
  /\ Resolves
  /\ Log(<<"probe">>)
  /\ EndLoop
  /\ is_logged_in' = TRUE
  /\ probeDone' = TRUE
  /\ UNCHANGED <<inputs, other, dl, launchV, browser, pageAlive, dom, bound, exc, result,
                 failKind, closeCount, files, hostV, probeSeen, loginV>>
  /\ Goto("open_compose")

\* post_to_x.py:102-106: the wait of this iteration raised; the loop goes on
\* to the next selector, and after the last one to the login wait.
post_to_x_probe_except ==
  /\ prog = "post_to_x"
  /\ pc = "probe"
  /\ WaitRaises
  /\ IF idx < Len(logged_in_selectors)
     THEN /\ NextSelector
          /\ UNCHANGED <<probeDone, loginWaits, log, failKind>>
          /\ Goto("probe")
     ELSE /\ EndLoop
          /\ Log(<<"probe">>)
          /\ probeDone' = TRUE
          /\ loginWaits' = loginWaits + 1
          /\ UNCHANGED failKind
          /\ Goto("notify")
  /\ UNCHANGED <<inputs, other, dl, launchV, browser, pageAlive, dom, is_logged_in,
                 bound, exc, result, closeCount, files, hostV, probeSeen,
                 success>>

\* post_to_x.py:107: the publisher calls show_login_notification.
post_to_x_show_login_notification ==
  /\ prog = "post_to_x"
  /\ pc = "notify"
  /\ show_login_notification
  /\ UNCHANGED <<inputs, other, dl, launchV, browser, pageAlive, dom, is_logged_in,
                 bound, exc, result, failKind, closeCount, files, hostV,
                 probeV, loginV>>

\* post_to_x.py:109-114: the selector of this iteration resolved; the run
\* goes straight on to the compose step (122).
post_to_x_login_found ==
  /\ prog = "post_to_x"
  /\ pc = "login_wait"
  /\ Resolves
  /\ Log(<<"long_wait">>)
  /\ EndLoop
  /\ is_logged_in' = TRUE
  /\ success' = "True"
  /\ UNCHANGED <<inputs, other, dl, launchV, browser, pageAlive, dom, bound, exc, result,
                 failKind, closeCount, files, hostV, probeV, loginWaits>>
  /\ Goto("open_compose")

\* The same without `if not is_logged_in: return False` (post_to_x.py:118-120):
\* after the last selector the run goes on to the compose step.
post_to_x_login_except_continue ==
  /\ prog = "post_to_x"
  /\ pc = "login_wait"
  /\ WaitRaises
  /\ IF idx < Len(logged_in_selectors)
     THEN /\ NextSelector
          /\ UNCHANGED <<success, log>>
          /\ Goto("login_wait")
     ELSE /\ EndLoop
          /\ Log(<<"long_wait">>)
          /\ success' = "False"
          /\ Goto("open_compose")
  /\ UNCHANGED <<inputs, other, dl, launchV, browser, pageAlive, dom, is_logged_in,
                 bound, exc, result, failKind, closeCount, files, hostV,
                 probeV, loginWaits>>

\* post_to_x.py:115-120: the wait of this iteration raised; after the last
\* selector the run returns False.
post_to_x_login_except ==
  /\ prog = "post_to_x"
  /\ pc = "login_wait"
  /\ WaitRaises
  /\ IF idx < Len(logged_in_selectors)
     THEN /\ NextSelector
          /\ UNCHANGED <<success, result, failKind, log>>
          /\ Goto("login_wait")
     ELSE /\ EndLoop
          /\ Log(<<"long_wait">>)
          /\ success' = "False"
          /\ failKind' = "LoginTimeout"
          /\ PublisherReturn("False")
  /\ UNCHANGED <<inputs, other, dl, launchV, browser, pageAlive, dom, is_logged_in,
                 bound, exc, closeCount, files, hostV, probeV, loginWaits>>

\* A located element is missing (post_to_x.py:156-159, 200-203): the page is
\* captured to x_debug.png and the run returns False; an error of the
\* capture is caught by `except Exception` like any other.
ElementMissing ==
  /\ failKind' = "ElementNotFound"
  /\ \E raises \in Raises :
       IF raises
       THEN /\ Log(<<"screenshot", "x_debug.png", "raised">>)
            /\ UNCHANGED <<files, result>>
            /\ Goto("except")
       ELSE /\ Log(<<"screenshot", "x_debug.png", "ok">>)
            /\ files' = files \cup {"x_debug.png"}
            /\ PublisherReturn("False")

\* The compose UI is open (post_to_x.py:134-147): a new page state, and the
\* text-input loop starts.
EnterLocateText ==
  /\ dom' \in Pages(Range(text_selectors))
  /\ probeSeen' = {}
  /\ StartLoop
  /\ Goto("locate_text")

\* The compose trigger handled like the other two elements: when it is not
\* found the page is captured and the run returns False.
post_to_x_open_compose_abort ==
  /\ prog = "post_to_x"
  /\ pc = "open_compose"
  /\ \/ /\ QueryRaises
        /\ UNCHANGED <<dom, loop, probeSeen, log, failKind, result, files>>
        /\ Goto("compose_goto")
     \/ /\ ~QueryRaises
        /\ compose_selector \in dom
        /\ \E raises \in Raises :
             /\ Log(<<"click", "compose">>)
             /\ UNCHANGED <<failKind, result, files>>
             /\ IF raises
                THEN UNCHANGED <<dom, loop, probeSeen>> /\ Goto("compose_goto")
                ELSE EnterLocateText
     \/ /\ ~QueryRaises
        /\ compose_selector \notin dom
        /\ UNCHANGED <<dom, loop, probeSeen>>
        /\ ElementMissing
  /\ UNCHANGED <<inputs, other, dl, launchV, browser, pageAlive, is_logged_in, bound,
                 exc, closeCount, hostV, probeDone, loginV>>

\* post_to_x.py:122-131: the compose trigger is queried and clicked, or the
\* compose URL is opened; any error leads to the except branch (132).
post_to_x_open_compose ==
  /\ prog = "post_to_x"
  /\ pc = "open_compose"
  /\ \/ /\ QueryRaises
        /\ UNCHANGED <<dom, loop, probeSeen, log, failKind>>
        /\ Goto("compose_goto")
     \/ /\ ~QueryRaises
        /\ compose_selector \in dom
        /\ \E raises \in Raises :
             /\ Log(<<"click", "compose">>)
             /\ UNCHANGED failKind
             /\ IF raises
                THEN UNCHANGED <<dom, loop, probeSeen>> /\ Goto("compose_goto")
                ELSE EnterLocateText
     \/ /\ ~QueryRaises
        /\ compose_selector \notin dom
        /\ \E raises \in Raises :
             /\ Log(<<"goto", "compose">>)
             /\ UNCHANGED failKind
             /\ IF raises
                THEN UNCHANGED <<dom, loop, probeSeen>> /\ Goto("compose_goto")
                ELSE EnterLocateText
  /\ UNCHANGED <<inputs, other, dl, launchV, browser, pageAlive, is_logged_in, bound,
                 exc, result, closeCount, files, hostV, probeDone, loginV>>

\* post_to_x.py:131-132: the except branch opens the compose URL; its error
\* is not guarded.
post_to_x_compose_goto ==
  /\ prog = "post_to_x"
  /\ pc = "compose_goto"
  /\ Log(<<"goto", "compose">>)
  /\ \E raises \in Raises :
       IF raises
       THEN /\ UNCHANGED <<dom, loop, probeSeen>>
            /\ PublisherRaise("NavigationTimeout")
       ELSE /\ UNCHANGED failKind
            /\ EnterLocateText
  /\ UNCHANGED <<inputs, other, dl, launchV, browser, pageAlive, is_logged_in, bound,
                 exc, result, closeCount, files, hostV, probeDone, loginV>>

\* post_to_x.py:147-152: the candidate of this iteration resolved and is
\* bound; the loop breaks.
post_to_x_text_found ==
  /\ prog = "post_to_x"
  /\ pc = "locate_text"
  /\ Resolves
  /\ EndLoop
  /\ text_input' = Selector
  /\ UNCHANGED <<inputs, other, dl, launchV, browser, pageAlive, dom, is_logged_in,
                 post_btn, exc, result, failKind, closeCount, files, hostV,
                 log, probeV, loginV>>
  /\ Goto("fill")

\* post_to_x.py:153-156: the wait of this iteration raised; next candidate,
\* and after the last one text_input is still None.
post_to_x_text_except ==
  /\ prog = "post_to_x"
  /\ pc = "locate_text"
  /\ WaitRaises
  /\ IF idx < Len(text_selectors) THEN NextSelector ELSE EndLoop
  /\ UNCHANGED <<inputs, other, dl, launchV, browser, pageAlive, dom, is_logged_in,
                 bound, exc, result, failKind, closeCount, files, hostV, log,
                 probeV, loginV>>
  /\ Goto(IF idx < Len(text_selectors) THEN "locate_text" ELSE "text_missing")

\* post_to_x.py:156-159
post_to_x_text_missing ==
  /\ prog = "post_to_x"
  /\ pc = "text_missing"
  /\ ElementMissing
  /\ UNCHANGED <<inputs, other, dl, launchV, browser, pageAlive, dom, loop, is_logged_in,
                 bound, exc, closeCount, hostV, probeV, loginV>>

\* post_to_x.py:161-174: the content is typed, the page settles and the
\* submit-control loop starts.
post_to_x_fill ==
  /\ prog = "post_to_x"
  /\ pc = "fill"
  /\ Log(<<"fill">>)
  /\ \E raises \in Raises :
       IF raises
       THEN /\ UNCHANGED <<dom, loop>>
            /\ PublisherRaise("ActionError")
       ELSE /\ dom' \in Pages(Range(post_selectors))
            /\ StartLoop
            /\ UNCHANGED failKind
            /\ Goto("locate_post")
  /\ UNCHANGED <<inputs, other, dl, launchV, browser, pageAlive, is_logged_in, bound,
                 exc, result, closeCount, files, hostV, probeV, loginV>>

\* The submit-control loop without its `break`: every candidate is queried
\* and the last query decides what is bound.
post_to_x_query_post_no_break ==
  /\ prog = "post_to_x"
  /\ pc = "locate_post"
  /\ IF QueryRaises
     THEN /\ EndLoop
          /\ UNCHANGED post_btn
          /\ PublisherRaise("PageError")
     ELSE /\ IF idx < Len(post_selectors) THEN NextSelector ELSE EndLoop
          /\ post_btn' = IF Selector \in dom THEN Selector ELSE None
          /\ UNCHANGED failKind
          /\ Goto(IF idx < Len(post_selectors) THEN "locate_post"
                  ELSE IF post_btn' # None THEN "check_disabled"
                  ELSE "post_missing")
  /\ UNCHANGED <<inputs, other, dl, launchV, browser, pageAlive, dom, is_logged_in,
                 text_input, exc, result, closeCount, files, hostV, log,
                 probeV, loginV>>

\* post_to_x.py:174-180: one query_selector per candidate, in order; the
\* first element found is bound and the loop breaks.
post_to_x_query_post ==
  /\ prog = "post_to_x"
  /\ pc = "locate_post"
  /\ IF QueryRaises
     THEN /\ EndLoop
          /\ UNCHANGED post_btn
          /\ PublisherRaise("PageError")
     ELSE IF Selector \in dom
     THEN /\ EndLoop
          /\ post_btn' = Selector
          /\ UNCHANGED failKind
          /\ Goto("check_disabled")
     ELSE /\ IF idx < Len(post_selectors) THEN NextSelector ELSE EndLoop
          /\ UNCHANGED <<post_btn, failKind>>
          /\ Goto(IF idx < Len(post_selectors) THEN "locate_post"
                  ELSE "post_missing")
  /\ UNCHANGED <<inputs, other, dl, launchV, browser, pageAlive, dom, is_logged_in,
                 text_input, exc, result, closeCount, files, hostV, log,
                 probeV, loginV>>

\* post_to_x.py:200-203
post_to_x_post_missing ==
  /\ prog = "post_to_x"
  /\ pc = "post_missing"
  /\ ElementMissing
  /\ UNCHANGED <<inputs, other, dl, launchV, browser, pageAlive, dom, loop, is_logged_in,
                 bound, exc, closeCount, hostV, probeV, loginV>>

\* post_to_x.py:180-184: the disabled attribute is read once; when it is
\* set the run sleeps and goes on.
post_to_x_check_disabled ==
  /\ prog = "post_to_x"
  /\ pc = "check_disabled"
  /\ IF QueryRaises
     THEN /\ Log(<<"get_attribute", "disabled", "raised">>)
          /\ PublisherRaise("PageError")
     ELSE /\ \E is_disabled \in BOOLEAN :
               log' = IF is_disabled
                      THEN log \o << <<"get_attribute", "disabled", "set">>,
                                     <<"sleep", "grace">> >>
                      ELSE Append(log, <<"get_attribute", "disabled", "unset">>)
          /\ UNCHANGED failKind
          /\ Goto("activate")
  /\ UNCHANGED <<inputs, other, dl, launchV, browser, pageAlive, dom, loop, is_logged_in,
                 bound, exc, result, closeCount, files, hostV, probeV, loginV>>

\* The forced click outside the except clause: it follows the synthetic
\* click whether or not that one raised.
post_to_x_evaluate_click_then_force ==
  /\ prog = "post_to_x"
  /\ pc = "activate"
  /\ \E raises \in Raises :
       /\ Log(<<"evaluate_click", IF raises THEN "raised" ELSE "ok">>)
       /\ Goto("force_click")
  /\ UNCHANGED <<inputs, other, dl, launchV, browser, pageAlive, dom, loop, is_logged_in,
                 bound, exc, result, failKind, closeCount, files, hostV,
                 probeV, loginV>>

\* post_to_x.py:186-189: the synthetic click; its error leads to the forced
\* click.
post_to_x_evaluate_click ==
  /\ prog = "post_to_x"
  /\ pc = "activate"
  /\ \E raises \in Raises :
       /\ Log(<<"evaluate_click", IF raises THEN "raised" ELSE "ok">>)
       /\ Goto(IF raises THEN "force_click" ELSE "post_done")
  /\ UNCHANGED <<inputs, other, dl, launchV, browser, pageAlive, dom, loop, is_logged_in,
                 bound, exc, result, failKind, closeCount, files, hostV,
                 probeV, loginV>>

\* post_to_x.py:189-190: the forced click is not guarded.
post_to_x_force_click ==
  /\ prog = "post_to_x"
  /\ pc = "force_click"
  /\ \E raises \in Raises :
       /\ Log(<<"force_click", IF raises THEN "raised" ELSE "ok">>)
       /\ IF raises THEN PublisherRaise("ActionError")
          ELSE UNCHANGED failKind /\ Goto("post_done")
  /\ UNCHANGED <<inputs, other, dl, launchV, browser, pageAlive, dom, loop, is_logged_in,
                 bound, exc, result, closeCount, files, hostV, probeV, loginV>>

\* The success path capturing the page before it returns True.
post_to_x_done_with_capture ==
  /\ prog = "post_to_x"
  /\ pc = "post_done"
  /\ Log(<<"screenshot", "x_debug.png", "ok">>)
  /\ files' = files \cup {"x_debug.png"}
  /\ UNCHANGED <<inputs, other, dl, launchV, browser, pageAlive, dom, loop, is_logged_in,
                 bound, exc, failKind, closeCount, hostV, probeV, loginV>>
  /\ PublisherReturn("True")

\* post_to_x.py:192-199
post_to_x_done ==
  /\ prog = "post_to_x"
  /\ pc = "post_done"
  /\ UNCHANGED <<inputs, other, dl, launchV, browser, pageAlive, dom, loop, is_logged_in,
                 bound, exc, failKind, closeCount, files, hostV, log, probeV,
                 loginV>>
  /\ PublisherReturn("True")

\* The handler closing the browser before it captures the page.
post_to_x_except_close_first ==
  /\ prog = "post_to_x"
  /\ pc = "except"
  /\ browser' = "closed"
  /\ closeCount' = closeCount + 1
  /\ log' = log \o << <<"close", "ok">>, <<"screenshot", "x_error.png", "raised">> >>
  /\ UNCHANGED <<inputs, other, dl, launchV, pageAlive, dom, loop, is_logged_in,
                 bound, exc, failKind, files, hostV, probeV, loginV>>
  /\ PublisherReturn("False")

\* post_to_x.py:205-211: the handler tries a screenshot to x_error.png,
\* ignores its error, and returns False.
post_to_x_except ==
  /\ prog = "post_to_x"
  /\ pc = "except"
  /\ \E raises \in Raises :
       IF raises
       THEN Log(<<"screenshot", "x_error.png", "raised">>) /\ UNCHANGED files
       ELSE /\ Log(<<"screenshot", "x_error.png", "ok">>)
            /\ files' = files \cup {"x_error.png"}
  /\ UNCHANGED <<inputs, other, dl, launchV, browser, pageAlive, dom, loop, is_logged_in,
                 bound, exc, failKind, closeCount, hostV, probeV, loginV>>
  /\ PublisherReturn("False")

\* post_to_x.py:212-216: the finally block; an error of close() is swallowed.
post_to_x_close ==
  /\ prog = "post_to_x"
  /\ pc = "close"
  /\ closeCount' = closeCount + 1
  /\ browser' = "closed"
  /\ \E raises \in BOOLEAN :
       Log(<<"close", IF raises THEN "raised" ELSE "ok">>)
  /\ dom' = {}
  /\ UNCHANGED <<inputs, other, dl, launchV, pageAlive, loop, is_logged_in, bound, exc,
                 result, failKind, files, hostV, probeV, loginV>>
  /\ Goto("returned")

\* main printing the content whatever the result.
post_to_x_main_always_content ==
  /\ prog = "post_to_x"
  /\ pc = "returned"
  /\ output' = Append(output, [success |-> (result = "True"),
                               content |-> "content"])
  /\ UNCHANGED <<inputs, other, dl, launchV, browser, pageAlive, dom, loop, is_logged_in,
                 bound, exc, result, failKind, closeCount, files, crashed,
                 log, probeV, loginV>>
  /\ Goto("exit")

\* post_to_x.py:226-232: main prints one record.
post_to_x_main ==
  /\ prog = "post_to_x"
  /\ pc = "returned"
  /\ output' = Append(output, [success |-> (result = "True"),
                               content |-> IF result = "True" THEN "content"
                                           ELSE None])
  /\ UNCHANGED <<inputs, other, dl, launchV, browser, pageAlive, dom, loop, is_logged_in,
                 bound, exc, result, failKind, closeCount, files, crashed,
                 log, probeV, loginV>>
  /\ Goto("exit")

Publisher ==
  \/ post_to_x_resolve
  \/ post_to_x_launch
  \/ post_to_x_new_page
  \/ post_to_x_goto
  \/ post_to_x_settle
  \/ post_to_x_probe_found
  \/ post_to_x_probe_except
  \/ post_to_x_show_login_notification
  \/ post_to_x_login_found
  \/ post_to_x_login_except
  \/ post_to_x_open_compose
  \/ post_to_x_compose_goto
  \/ post_to_x_text_found
  \/ post_to_x_text_except
  \/ post_to_x_text_missing
  \/ post_to_x_fill
  \/ post_to_x_query_post
  \/ post_to_x_post_missing
  \/ post_to_x_check_disabled
  \/ post_to_x_evaluate_click
  \/ post_to_x_force_click
  \/ post_to_x_done
  \/ post_to_x_except
  \/ post_to_x_close
  \/ post_to_x_main

----------------------------------------------------------------------------
\* The second run on the same profile directory.
OtherRun == OtherRunLaunch \/ OtherRunClose

\* The human at the screen.
Human == DialogClosed \/ \E s \in Scope(pc) : DomAppear(s)

Environment == Tick \/ PageCrash \/ Human \/ OtherRun

Crawler ==
  \/ crawl_with_session_resolve
  \/ simple_crawl_resolve
  \/ crawl_with_session_launch
  \/ simple_crawl_launch
  \/ crawler_new_page
  \/ crawler_goto_target
  \/ simple_crawl_settle
  \/ check_login_status_true
  \/ check_login_status_false
  \/ wait_for_login_goto
  \/ crawler_show_login_notification
  \/ wait_for_login_true
  \/ wait_for_login_false
  \/ crawler_goto_target_again
  \/ crawl_function
  \/ simple_crawl_extract
  \/ crawler_close
  \/ crawl_main
  \/ example_zhihu_main

Next == Environment \/ Crawler \/ Publisher

Spec == Init /\ [][Next]_vars

\* The steps the event loop and the clock take without anybody's help:
\* asyncio.run (crawl.py:232, post_to_x.py:228) resumes the coroutine whenever
\* the call it awaits has returned or raised, and a wait_for_selector whose
\* selector is absent sees its timeout elapse.
Run == Crawler \/ Publisher \/ Tick

\* Nothing obliges the human, the page, the browser or a second run to act.
FairSpec == Spec /\ WF_vars(Run)

----------------------------------------------------------------------------
\* download_skills.py: download_skill

\* The path templates (download_skills.py:13-22), each as its segments.
SKILL_PATHS ==
  << <<"skills", "{name}.md">>,
     <<"{name}.md">>,
     <<"{name}", "skill.md">>,
     <<"{name}", "index.md">>,
     <<"skills", "{name}", "skill.md">>,
     <<"skills", "{name}", "index.md">>,
     <<"skills", "{name}", "README.md">>,
     <<"{name}", "README.md">> >>

\* [RAW_BASE, RAW_BASE_MASTER] (download_skills.py:25-26, 43), each as the
\* branch its URL names.
RAW_BASES == <<"main", "master">>

\* os.path.basename(path) (download_skills.py:51).
basename(path) == path[Len(path)]

\* A response body is a sequence of characters, " " standing for whitespace.
Chars(c, n) == [i \in 1..n |-> c]

\* The bodies a server may send: nothing, blanks only, text of 10 and of 11
\* characters, text of 10 characters inside blanks, text of 11 characters
\* inside blanks, and two characters with 9 blanks between them.
Texts ==
  { <<>>,
    Chars(" ", 12),
    Chars("x", 10),
    Chars("x", 11),
    <<" ">> \o Chars("x", 10) \o <<" ">>,
    <<" ", " ">> \o Chars("x", 11) \o <<" ", " ">>,
    <<"x">> \o Chars(" ", 9) \o <<"x">> }

\* What requests.get(url, timeout=15) may do (download_skills.py:46, 71):
\* raise a RequestException, or return a response.
Responses ==
  { [kind |-> "RequestException", status_code |-> 0, text |-> <<>>] }
    \cup { [kind |-> "Response", status_code |-> c, text |-> t] :
             c \in {200, 404}, t \in Texts }

\* str.strip() (download_skills.py:47): leading whitespace goes, then
\* trailing whitespace.
RECURSIVE lstrip(_)
lstrip(t) == IF t # <<>> /\ Head(t) = " " THEN lstrip(Tail(t)) ELSE t

RECURSIVE rstrip(_)
rstrip(t) ==
  IF t # <<>> /\ t[Len(t)] = " " THEN rstrip(SubSeq(t, 1, Len(t) - 1)) ELSE t

strip(t) == rstrip(lstrip(t))

\* The same test without the length condition.
acceptable_any_200(r) == r.status_code = 200

\* resp.status_code == 200 and len(resp.text.strip()) > 10
\* (download_skills.py:47).
acceptable(r) == r.status_code = 200 /\ Len(strip(r.text)) > 10

\* A call of download_skill on a skill whose skill.json is or is not on disk.
DownloadInit ==
  /\ prog = "download_skills"
  /\ localAppData = FALSE
  /\ dirs = {}
  /\ use_system_profile = FALSE
  /\ login_url = None
  /\ scroll = FALSE
  /\ pc = "exit"
  /\ Fresh
  /\ dl_pc = "entry"
  /\ meta_file_exists \in BOOLEAN
  /\ path_tpl = 1
  /\ base = 1
  /\ requests = <<>>
  /\ resp = NoResponse
  /\ written = {}
  /\ dl_result = None

\* download_skill touches nothing of a browser run.
NoBrowserRun ==
  UNCHANGED <<inputs, other, pc, launchV, browser, pageAlive, dom, loop,
              is_logged_in, bound, exc, result, failKind, closeCount,
              files, hostV, log, trace, probeV, loginV>>

\* return value (download_skills.py:39, 70, 74), or an exception that leaves
\* the function.
DownloadReturn(value) ==
  /\ dl_result' = value
  /\ dl_pc' = "done"

\* Skip if already downloaded (download_skills.py:37-39); otherwise enter the
\* loops (download_skills.py:41-43).
download_skill_entry ==
  /\ dl_pc = "entry"
  /\ IF meta_file_exists
       THEN DownloadReturn("True")
       ELSE dl_pc' = "get" /\ UNCHANGED dl_result
  /\ UNCHANGED <<meta_file_exists, path_tpl, base, requests, resp, written>>
  /\ NoBrowserRun

\* One round of the inner loop (download_skills.py:43-47, 71-74): the URL of
\* the current template and branch is requested; an acceptable response goes
\* on to the writes, anything else moves to the next branch, then to the next
\* template, and after the last one the function returns False.
download_skill_get ==
  /\ dl_pc = "get"
  /\ requests' = Append(requests, <<RAW_BASES[base], SKILL_PATHS[path_tpl]>>)
  /\ \E r \in Responses :
       /\ resp' = r
       /\ IF r.kind = "Response" /\ acceptable(r)
            THEN /\ dl_pc' = "write_md"
                 /\ UNCHANGED <<path_tpl, base, dl_result>>
            ELSE IF base < Len(RAW_BASES)
              THEN /\ base' = base + 1
                   /\ UNCHANGED <<dl_pc, path_tpl, dl_result>>
              ELSE IF path_tpl < Len(SKILL_PATHS)
                THEN /\ path_tpl' = path_tpl + 1
                     /\ base' = 1
                     /\ UNCHANGED <<dl_pc, dl_result>>
                ELSE /\ DownloadReturn("False")
                     /\ UNCHANGED <<path_tpl, base>>
  /\ UNCHANGED <<meta_file_exists, written>>
  /\ NoBrowserRun

\* os.makedirs and the markdown file (download_skills.py:48-53). Neither is
\* inside a handler for OSError: makedirs may raise before anything is on
\* disk, and the write may raise after open has created the file.
download_skill_write_md ==
  /\ dl_pc = "write_md"
  /\ \E outcome \in {"ok", "makedirs raises", "write raises"} :
       /\ written' = IF outcome = "makedirs raises"
                       THEN written
                       ELSE written \cup {basename(SKILL_PATHS[path_tpl])}
       /\ IF outcome = "ok"
            THEN dl_pc' = "write_meta" /\ UNCHANGED dl_result
            ELSE DownloadReturn("OSError")
  /\ UNCHANGED <<meta_file_exists, path_tpl, base, requests, resp>>
  /\ NoBrowserRun

\* The metadata and skill.json, then return True (download_skills.py:55-70).
\* A key missing from the skill (KeyError) or a failing open leaves the
\* function before skill.json exists.
download_skill_write_meta ==
  /\ dl_pc = "write_meta"
  /\ \E outcome \in {"ok", "KeyError", "OSError"} :
       IF outcome = "ok"
         THEN /\ written' = written \cup {"skill.json"}
              /\ DownloadReturn("True")
         ELSE /\ UNCHANGED written
              /\ DownloadReturn(outcome)
  /\ UNCHANGED <<meta_file_exists, path_tpl, base, requests, resp>>
  /\ NoBrowserRun

DownloadNext ==
  \/ download_skill_entry
  \/ download_skill_get
  \/ download_skill_write_md
  \/ download_skill_write_meta

DownloadSpec == DownloadInit /\ [][DownloadNext]_vars

----------------------------------------------------------------------------
\* Vocabulary of the properties

IsPrefix(a, b) == Len(a) <= Len(b) /\ a = SubSeq(b, 1, Len(a))

\* The run is over: control is back at the caller, or the host has exited.
Returned == pc \in {"returned", "exit"}

\* A browser handle was created in this run.
HandleCreated == launchKind # None

\* The initial probe returned true / false.
ProbeTrue == probeDone /\ is_logged_in /\ success = None
ProbeFalse == probeDone /\ loginWaits > 0

\* Positions right after the initial probe returned.
AfterProbePcs == {"extract", "open_compose", "login_goto", "notify"}

\* The first candidate of `list` present in page d, or None.
FirstPresent(list, d) ==
  IF \E i \in 1..Len(list) : list[i] \in d
  THEN list[CHOOSE i \in 1..Len(list) :
              list[i] \in d /\ \A j \in 1..(i - 1) : list[j] \notin d]
  ELSE None

\* The landmark call e occurs in the log.
Logged(e) == \E i \in 1..Len(log) : log[i] = e

\* The log holds a navigation to the target after the end of the long wait.
TargetNavigationAfterLogin ==
  \E i, j \in 1..Len(log) :
     /\ i < j
     /\ log[i] = <<"long_wait">>
     /\ log[j] \in {<<"goto", "target", "ok">>, <<"goto", "target", "raised">>}

\* The path of a run that needs no login.
HappyPath == <<"Init", "Launching", "Navigating", "Probing", "Extracting", "Done">>

\* No step of the login-wait controller was taken.
NoLoginWait ==
  /\ loginWaits = 0
  /\ ~Logged(<<"notify">>)
  /\ ~Logged(<<"long_wait">>)
  /\ ~Logged(<<"goto", "login", "ok">>)
  /\ ~Logged(<<"goto", "login", "raised">>)
  /\ "AwaitingLogin" \notin Range(trace)

----------------------------------------------------------------------------
\* C1: in every run of crawl_with_session, simple_crawl and post_to_x in
\* which a browser handle was created, close is invoked on it exactly once,
\* whatever the terminal state: never twice, never without a handle, and
\* once by the time control is back at the caller.
C1_CloseExactlyOnce ==
  /\ closeCount <= 1
  /\ (~HandleCreated => closeCount = 0)
  /\ (Returned /\ HandleCreated => closeCount = 1 /\ browser = "closed")

\* A run whose extraction routine raised, back at the caller with the handle
\* closed once.
C1_Witness ==
  /\ Returned
  /\ failKind = "ExtractionError"
  /\ closeCount = 1

\* C2: the authentication probe returns true if and only if at least one
\* indicator was present in the DOM at some moment of the probe.
C2_ProbeIffIndicatorSeen ==
  (probeDone /\ pageAlive /\ success = None /\ pc \in AfterProbePcs)
     => (is_logged_in <=> probeSeen # {})

\* C3: the authentication probe never raises: a step out of the probe
\* leaves no exception and no failure behind, and when the selector did not
\* resolve its outcome is false and the run is at the start of the login wait.
C3_ProbeNeverRaises ==
  [][(pc = "probe" /\ pc' # "probe") =>
        /\ exc' = None
        /\ failKind' = None
        /\ probeDone'
        /\ (~Resolves => ~is_logged_in')
        /\ (~is_logged_in' => pc' \in {"login_goto", "notify"})
        /\ (is_logged_in' => pc' \in {"extract", "open_compose"})]_vars

\* A probe that failed because the page was gone, the run at the start of
\* the login wait.
C3_Witness ==
  /\ pc \in {"login_goto", "notify"}
  /\ probeDone
  /\ ~is_logged_in
  /\ ~pageAlive
  /\ failKind = None

\* C4: in every run where the initial probe is false and the login wait then
\* succeeds, a navigation to the target URL occurs after the login-wait
\* success and before the extraction/action routine starts.
C4_RenavigateBeforeExtracting ==
  (success = "True" /\ pc \in ExtractPcs) => TargetNavigationAfterLogin

\* C5: locating an element from an ordered candidate list binds the first
\* candidate, in list order, that is present; the candidates tried are
\* exactly those up to the bound one, so none after it is queried, and at
\* most one is bound.  When every candidate is absent nothing is bound.
C5_LocateFirstPresent ==
  /\ pc = "fill" =>
       /\ \E k \in 1..Len(text_selectors) :
             /\ text_input = text_selectors[k]
             /\ queried = SubSeq(text_selectors, 1, k)
       /\ (domStable /\ pageAlive =>
             text_input = FirstPresent(text_selectors, dom))
  /\ pc = "text_missing" =>
       /\ text_input = None
       /\ queried = text_selectors
       /\ (domStable /\ pageAlive => FirstPresent(text_selectors, dom) = None)
  /\ pc \in {"check_disabled", "activate", "force_click", "post_done"} =>
       /\ \E k \in 1..Len(post_selectors) :
             /\ post_btn = post_selectors[k]
             /\ queried = SubSeq(post_selectors, 1, k)
       /\ (domStable => post_btn = FirstPresent(post_selectors, dom))
  /\ pc = "post_missing" =>
       /\ post_btn = None
       /\ queried = post_selectors
       /\ (domStable => FirstPresent(post_selectors, dom) = None)

\* Candidates [A, B, C] of the submit control with only B on the page: B is
\* bound and C was not queried.
C5_Witness ==
  /\ pc = "check_disabled"
  /\ domStable
  /\ dom = {post_selectors[2]}
  /\ post_btn = post_selectors[2]
  /\ queried = <<post_selectors[1], post_selectors[2]>>

\* C6: when the session is authenticated but every candidate of the submit
\* control is absent, the run ends in Failed with kind ElementNotFound, a
\* diagnostic screenshot is captured, and its path is in the emitted result.
C6_SubmitMissingReported ==
  (/\ pc = "exit"
   /\ is_logged_in
   /\ text_input # None
   /\ post_btn = None
   /\ queried = post_selectors) =>
     /\ Last(trace) = "Failed"
     /\ failKind = "ElementNotFound"
     /\ "x_debug.png" \in files
     /\ Len(output) = 1
     /\ \E field \in DOMAIN output[1] \ {"success"} :
           output[1][field] = "x_debug.png"

\* C7 as stated: when a profile exists and the initial probe finds an
\* indicator, the run goes Init, Launching, Navigating, Probing, Extracting,
\* Done and no step of the login wait is taken.
C7_AuthenticatedRunIsDone ==
  (ProbeTrue /\ user_data_dir # None) =>
     /\ IsPrefix(trace, HappyPath)
     /\ NoLoginWait

\* C7 as amended: such a run goes Init, Launching, Navigating, Probing,
\* Extracting and then Done, or Failed when the extraction/action routine
\* fails; no step of the login wait is taken, and the publisher's run is
\* Done exactly when it returned True.
C7_AuthenticatedRunSkipsLogin ==
  (ProbeTrue /\ user_data_dir # None) =>
     /\ \/ IsPrefix(trace, HappyPath)
        \/ /\ trace = SubSeq(HappyPath, 1, 5) \o <<"Failed">>
           /\ failKind \in {"ExtractionError", "ElementNotFound", "ActionError",
                            "PageError", "NavigationTimeout"}
     /\ NoLoginWait
     /\ (Returned /\ prog = "post_to_x" =>
           (Last(trace) = "Done" <=> result = "True"))
     /\ (Returned /\ prog \in Crawlers /\ Last(trace) = "Done" =>
           Logged(<<"extract">>))

\* A run on an existing profile, authenticated at load, that ended Done.
C7_Witness ==
  /\ pc = "exit"
  /\ ProbeTrue
  /\ user_data_dir # None
  /\ trace = HappyPath

\* C8: when the page is initially unauthenticated and the login wait ends
\* without an indicator, the run ends in Failed with kind LoginTimeout, the
\* login wait is started once only, the extraction/action routine never
\* runs, and the browser handle is closed.
C8_LoginTimeoutIsTerminal ==
  (success = "False") =>
     /\ ProbeFalse
     /\ failKind = "LoginTimeout"
     /\ Last(trace) = "Failed"
     /\ loginWaits = 1
     /\ Cardinality({i \in 1..Len(log) : log[i] = <<"long_wait">>}) = 1
     /\ Cardinality({i \in 1..Len(log) : log[i] = <<"notify">>}) = 1
     /\ "Extracting" \notin Range(trace)
     /\ ~Logged(<<"extract">>)
     /\ text_input = None
     /\ (Returned => browser = "closed" /\ closeCount = 1)

\* The long wait timed out on a live page and the run is over.
C8_Witness ==
  /\ pc = "exit"
  /\ success = "False"
  /\ pageAlive
  /\ browser = "closed"

\* C9: every fatal error ends the run with a structured failure result
\* emitted as one machine-readable record; no run ends with an exception
\* escaping to the host process.
C9_NoUnhandledCrash ==
  pc = "exit" => /\ ~crashed
                 /\ exc = None
                 /\ Len(output) = 1

\* C10: a timeout of the navigation to the target URL is not fatal: the run
\* proceeds to the probe.
C10_NavigationTimeoutTolerated ==
  [][(pc = "goto_target" /\ pc' # "goto_target" /\ pageAlive) =>
        /\ failKind' = None
        /\ pc' \in {"settle", "probe"}]_vars

----------------------------------------------------------------------------
\* Vocabulary of the later properties

\* The number of occurrences of landmark call e in the log.
RECURSIVE CountIn(_, _)
CountIn(e, l) ==
  IF l = <<>> THEN 0
  ELSE (IF l[1] = e THEN 1 ELSE 0) + CountIn(e, SubSeq(l, 2, Len(l)))

\* The profile resolution has run.
Resolved == pc # "resolve"

\* C11: a null profile resolution does not fail the run (an ephemeral browser
\* is launched and the run goes on to Navigating), and a resolved profile is
\* launched as a persistent context; in the crawler and in the publisher.
C11_EphemeralFallback ==
  /\ (Resolved /\ user_data_dir = None =>
        /\ failKind # "ProfileNotFound"
        /\ "Launching" \in Range(trace))
  /\ (HandleCreated =>
        launchKind = IF user_data_dir # None THEN "persistent" ELSE "ephemeral")

\* C12: once a login-wait episode has started, the run is over or the wait
\* has seen an indicator after finitely many steps: the notification and the
\* long wait are bounded, no step of the episode blocks without bound.
C12_LoginWaitTerminates ==
  (loginWaits > 0) ~> (success = "True" \/ pc = "exit")

\* The positions in the log of landmark call e.
At(e) == {i \in 1..Len(log) : log[i] = e}

\* The landmark call right before position i of the log, or <<>>.
Before(i) == IF i > 1 THEN log[i - 1] ELSE <<>>

\* C13: the user notification is triggered exactly once per login-wait
\* episode: never more than once in a run, and once in every run whose
\* initial probe was false, by the time the run is over.
C13_NotifyExactlyOnce ==
  /\ CountIn(<<"notify">>, log) <= 1
  /\ (Returned /\ ProbeFalse => CountIn(<<"notify">>, log) = 1)

\* C14: in a login-wait episode the navigation to the login URL comes first
\* and only when a login URL was given (otherwise no call lies between the
\* probe and the notification), then the notification, then the long wait:
\* the long wait neither starts nor ends before the notification was emitted.
C14_LoginStepOrder ==
  /\ (pc = "login_wait" => Logged(<<"notify">>))
  /\ \A i \in At(<<"long_wait">>) : Before(i) = <<"notify">>
  /\ \A i \in At(<<"notify">>) :
        IF login_url = None
        THEN Before(i) = <<"probe">>
        ELSE /\ Before(i) = <<"goto", "login", "ok">>
             /\ Before(i - 1) = <<"probe">>
  /\ \A i \in At(<<"goto", "login", "ok">>) \cup At(<<"goto", "login", "raised">>) :
        login_url # None /\ Before(i) = <<"probe">>

\* A run with a login URL went through the whole episode: the login page,
\* the notification, the long wait to its end.
C14_Witness ==
  /\ login_url # None
  /\ Logged(<<"goto", "login", "ok">>)
  /\ Logged(<<"long_wait">>)
  /\ success = "True"

\* C15: an error raised while the extraction/action routine runs is caught
\* in the run itself: by the time the run is over a diagnostic screenshot was
\* attempted (whether or not it succeeded) and no exception leaves the run,
\* which ends Failed; in crawl_with_session, simple_crawl and post_to_x.
C15_ExtractionErrorCaught ==
  (Returned /\ "Extracting" \in Range(trace) /\ failKind # None) =>
     /\ exc = None
     /\ \E i \in 1..Len(log) : log[i][1] = "screenshot"
     /\ Last(trace) = "Failed"

\* C16: the extraction/action routine starts only in runs where
\* authentication was confirmed: whenever the run is or was in Extracting,
\* the initial probe returned true or the login wait returned true.
C16_ExtractOnlyAuthenticated ==
  "Extracting" \in Range(trace) => (ProbeTrue \/ success = "True")

\* The publisher's action routine runs after a login wait that saw an
\* indicator.
C16_Witness ==
  /\ prog = "post_to_x"
  /\ pc = "fill"
  /\ ~ProbeTrue
  /\ success = "True"

\* The reads of the disabled attribute in the log.
DisabledChecks ==
  {i \in 1..Len(log) : log[i][1] = "get_attribute"}

\* The invocations of the submit control in the log.
Invocations ==
  {i \in 1..Len(log) : log[i][1] \in {"evaluate_click", "force_click"}}

\* C17: a located submit control that carries the disabled attribute is
\* invoked only after a grace period and one recheck of the attribute: two
\* reads in all, the sleep between them, and never more than two.
C17_DisabledRecheckedOnce ==
  /\ Cardinality(DisabledChecks) <= 2
  /\ (Invocations # {} /\ Logged(<<"get_attribute", "disabled", "set">>) =>
        \E i, j \in DisabledChecks :
           /\ i < j
           /\ log[i] = <<"get_attribute", "disabled", "set">>
           /\ \E k \in (i + 1)..(j - 1) : log[k] = <<"sleep", "grace">>
           /\ \A c \in Invocations : j < c)

\* C18: when the browser launch fails, the launch was attempted exactly
\* once, the caller gets a failed result (a value, not an exception, and the
\* host prints a record of failure), and the run opened no page and made no
\* navigation and no probe.
C18_LaunchFailureReported ==
  /\ CountIn(<<"launch">>, log) <= 1
  /\ (failKind = "LaunchError" =>
        /\ log = << <<"launch">> >>
        /\ ~HandleCreated
        /\ ~probeDone
        /\ "Navigating" \notin Range(trace)
        /\ (Returned => exc = None /\ result = "False")
        /\ (pc = "exit" => ~crashed /\ Len(output) = 1))

C20_ProbeIsRace ==
  pc \in {"probe", "login_wait"} =>
     /\ waited <= TimeoutAt(pc)
     /\ (pageAlive /\ dom \cap Range(Indicators) # {} => ~ENABLED Tick)

\* The run called its resolver (crawl_with_session does only when asked to
\* use the system profile).
ResolverCalled == Resolved /\ use_system_profile

\* The priority order of the run's resolver.
Priority == IF prog = "post_to_x" THEN browser_priority ELSE chrome_priority

\* The vendor directories that exist under the base location.
Existing == IF localAppData THEN dirs ELSE {}

\* C21: the resolver returns the first directory of its fixed priority
\* order that exists on disk, and null if and only if none exists or the
\* base location is unavailable; resolving changes nothing on disk or in the
\* environment.
C21_ResolveFirstExisting ==
  [][/\ (ResolverCalled' =>
           /\ user_data_dir' = FirstPresent(Priority, Existing)
           /\ (user_data_dir' = None <=> Existing = {}))
     /\ (pc = "resolve" => UNCHANGED <<localAppData, dirs, files>>)]_vars

\* The first directory of the order is missing and the second one exists:
\* the resolver returned the second.
C21_Witness ==
  /\ ResolverCalled
  /\ Priority[1] \notin dirs
  /\ user_data_dir = Priority[2]

\* What the other script's resolver returns on this host.
OtherResolver ==
  IF prog = "post_to_x"
  THEN get_default_chrome_user_data_dir(localAppData, dirs)
  ELSE get_default_browser_user_data_dir(localAppData, dirs)

\* C22: the crawler's and the publisher's resolver are the same logic: on
\* every host (whichever vendor directories exist) the directory the run's
\* resolver returned is the one the other script's resolver returns.
C22_ResolversAgree ==
  ResolverCalled => user_data_dir = OtherResolver

\* C22 as amended: the two resolvers return the same directory (or both
\* null) on every host where at most one vendor directory exists; where both
\* exist the crawler's returns Chrome's and the publisher's returns Edge's.
C22_ResolversAgreeUnlessBoth ==
  ResolverCalled =>
     IF Existing = Vendors
     THEN /\ user_data_dir = (IF prog = "post_to_x" THEN "Edge" ELSE "Chrome")
          /\ OtherResolver = (IF prog = "post_to_x" THEN "Chrome" ELSE "Edge")
     ELSE user_data_dir = OtherResolver

\* Only Chrome's directory exists and the publisher resolved it, as the
\* crawler's resolver does.
C22_Witness ==
  /\ prog = "post_to_x"
  /\ ResolverCalled
  /\ dirs = {"Chrome"}
  /\ user_data_dir = "Chrome"

\* The synthetic activations and the forced clicks in the log.
SyntheticClicks == {i \in 1..Len(log) : log[i][1] = "evaluate_click"}
ForcedClicks == {i \in 1..Len(log) : log[i][1] = "force_click"}

\* C23: the submit control is invoked by the synthetic activation first,
\* and by the forced click if and only if the synthetic activation raised:
\* a forced click comes right after a synthetic activation that raised, a
\* synthetic activation that raised is followed by the forced click, and a
\* run makes at most one of each.
C23_SyntheticThenForced ==
  /\ Cardinality(SyntheticClicks) <= 1
  /\ Cardinality(ForcedClicks) <= 1
  /\ \A i \in ForcedClicks : Before(i) = <<"evaluate_click", "raised">>
  /\ \A i \in At(<<"evaluate_click", "raised">>) :
        IF i = Len(log) THEN pc = "force_click" ELSE i + 1 \in ForcedClicks
  /\ \A i \in At(<<"evaluate_click", "ok">>) :
        i = Len(log) \/ log[i + 1][1] = "close"

\* The synthetic activation raised and the forced click went through.
C23_Witness ==
  /\ Logged(<<"evaluate_click", "raised">>)
  /\ Logged(<<"force_click", "ok">>)
  /\ result = "True"

\* C24: the browser handle is closed before control returns to the caller
\* in both terminal states: when the run's value or exception is at the
\* caller, and when the host has printed its record or died of the
\* exception, close has been called on every handle the run created.
C24_ClosedBeforeReturn ==
  /\ (Returned /\ HandleCreated => browser = "closed" /\ closeCount = 1)
  /\ (output # <<>> \/ crashed => browser # "open")

\* A failed publisher run (the login wait timed out) is back at the caller
\* with its browser closed.
C24_Witness ==
  /\ prog = "post_to_x"
  /\ pc = "returned"
  /\ failKind = "LoginTimeout"
  /\ result = "False"
  /\ browser = "closed"

\* C25: a diagnostic screenshot is captured only on failure paths: a run
\* that returns success, or that is in Done, has attempted no screenshot and
\* written no artifact file.
C25_ScreenshotOnlyOnFailure ==
  (result \in {"True", "payload"} \/ Last(trace) = "Done") =>
     /\ files = {}
     /\ \A i \in 1..Len(log) : log[i][1] # "screenshot"

\* The publisher printed a record of success.
C25_Witness ==
  /\ prog = "post_to_x"
  /\ pc = "exit"
  /\ Len(output) = 1
  /\ output[1].success
  /\ files = {}

\* The compose trigger was looked for on a live page and not clicked: the
\* compose URL was opened instead.
ComposeNotLocated ==
  /\ pageAlive
  /\ Logged(<<"goto", "compose">>)
  /\ ~Logged(<<"click", "compose">>)

\* The capture of a missing element to x_debug.png was attempted.
DebugCapture ==
  \E i \in 1..Len(log) : log[i][1] = "screenshot" /\ log[i][2] = "x_debug.png"

C27_LaunchFlags ==
  HandleCreated => {AutomationControlled, WebSecurity} \subseteq launchArgs

\* C28: no page operation is performed on a closed browser handle: once the
\* browser is closed the run is back at its caller, where no page call is
\* made, and close is the last call in its log.
C28_NoOperationAfterClose ==
  browser = "closed" =>
     /\ Returned
     /\ Last(log)[1] = "close"
     /\ CountIn(<<"close", "ok">>, log) + CountIn(<<"close", "raised">>, log) = 1

\* The publisher's error handler captured the page, and the browser was
\* closed after that.
C28_Witness ==
  /\ prog = "post_to_x"
  /\ browser = "closed"
  /\ Logged(<<"screenshot", "x_error.png", "ok">>)

\* C29: post_to_x returns success only after a text input was bound, the
\* content filled, a submit control bound and an activation invoked, in this
\* order; the submit control is never activated without a bound text input;
\* and the record main prints holds the posted text if and only if its
\* success is true, null otherwise.
C29_PostOrdering ==
  /\ (Logged(<<"fill">>) => text_input # None)
  /\ (post_btn # None => Logged(<<"fill">>))
  /\ (Invocations # {} =>
        /\ text_input # None
        /\ post_btn # None
        /\ \A c \in Invocations : \E f \in At(<<"fill">>) : f < c)
  /\ (result = "True" =>
        Logged(<<"evaluate_click", "ok">>) \/ Logged(<<"force_click", "ok">>))
  /\ (prog = "post_to_x" /\ pc = "exit" =>
        /\ Len(output) = 1
        /\ (output[1].success <=> result = "True")
        /\ output[1].content = IF output[1].success THEN "content" ELSE None)

\* A run that filled the text and failed afterwards printed a record of
\* failure.
C29_Witness ==
  /\ prog = "post_to_x"
  /\ pc = "exit"
  /\ Logged(<<"fill">>)
  /\ ~output[1].success

\* The candidate URLs in the order of the lists: the templates in list order,
\* main before master for each.
Candidates ==
  [k \in 1..(2 * Len(SKILL_PATHS)) |->
     <<RAW_BASES[((k - 1) % 2) + 1], SKILL_PATHS[((k - 1) \div 2) + 1]>>]

\* The positions of a text that hold something other than whitespace.
NonBlankAt(t) == {i \in 1..Len(t) : t[i] # " "}

\* How many characters of a text are not blank.
NonBlankCount(t) == Cardinality(NonBlankAt(t))

\* How many characters lie from the first non-blank one to the last.
StrippedLength(t) ==
  IF NonBlankAt(t) = {}
    THEN 0
    ELSE LET first == CHOOSE i \in NonBlankAt(t) :
                        \A j \in NonBlankAt(t) : i <= j
             last == CHOOSE i \in NonBlankAt(t) :
                       \A j \in NonBlankAt(t) : j <= i
         IN last - first + 1

\* What a step of download_skill has to respect, for a given measure of a
\* response body.
DownloadContract(Size(_)) ==
  LET Good(r) ==
        r.kind = "Response" /\ r.status_code = 200 /\ Size(r.text) > 10
      LastPath == requests'[Len(requests')][2]
  IN /\ meta_file_exists' =>
          requests' = <<>> /\ written' = {} /\ dl_result' \in {None, "True"}
     /\ dl_pc = "entry" /\ meta_file_exists => dl_result' = "True"
     /\ IsPrefix(requests, requests')
     /\ IsPrefix(requests', Candidates)
     /\ Len(requests') <= Len(requests) + 1
     /\ requests' # requests => (Good(resp') <=> dl_pc' = "write_md")
     /\ dl_pc \in {"write_md", "write_meta", "done"} => requests' = requests
     /\ dl_result' = "True" /\ ~meta_file_exists' =>
          Good(resp') /\ written' = {LastPath[Len(LastPath)], "skill.json"}
     /\ dl_result' = "False" =>
          requests' = Candidates /\ written' = {} /\ ~Good(resp')

\* C30 as stated: download_skill performs no HTTP request and returns True
\* when skill.json already exists; otherwise it tries the path templates in
\* list order, main before master for each, stops at the first response with
\* status 200 and more than 10 non-blank characters, returns True only after
\* both the markdown file and skill.json were written, and returns False only
\* when every candidate URL failed and no file was written.
C30_DownloadSkill == [][DownloadContract(NonBlankCount)]_vars

\* C30 as amended: the same, the acceptable response being one with status 200
\* and more than 10 characters once leading and trailing whitespace is
\* stripped, so that blanks inside the text count.
C30_DownloadSkillStripped == [][DownloadContract(StrippedLength)]_vars

\* A master URL of a later template is accepted after the earlier candidates
\* failed, on a body with at most 10 non-blank characters, and True is
\* returned with both files written.
C30_Witness ==
  /\ dl_result = "True"
  /\ ~meta_file_exists
  /\ Len(requests) > 2
  /\ requests[Len(requests)][1] = "master"
  /\ NonBlankCount(resp.text) <= 10
  /\ "skill.json" \in written

====
